---------------------------- MODULE Spec2Model ----------------------------
(***************************************************************************)
(* Model of testsystem.c: SHTW1/SHTC1 temperature and humidity read-out    *)
(* through IO-Warrior USB sticks (I2C tunnelled in HID special reports).   *)
(*                                                                         *)
(* Conventions.                                                            *)
(*  - A report is the sequence of its 7 payload bytes; the C expression    *)
(*    report.Bytes[k] is B(report, k).                                     *)
(*  - handles_table[i] of the C code (0-based) is the handle i + 1; NULL   *)
(*    is 0.  sensors_table[i] of the C code is sensors_table[i + 1] here.  *)
(*  - float values are held exactly, scaled by 65536 (every value the      *)
(*    conversions produce is a multiple of 1/65536 that fits a float       *)
(*    mantissa).  The dew point, which needs logf, is kept as the term of   *)
(*    its formula.                                                         *)
(*  - The polling loop of main (lines 710-741) is commented out in the     *)
(*    source: the program as compiled performs one update call (line 706)  *)
(*    and exits.  Spec is that program.  SpecLoop is main with the block   *)
(*    710-741 taken as written, from the call of line 706 on.              *)
(***************************************************************************)
EXTENDS Integers, Sequences, FiniteSets, TLC

(***************************************************************************)
(* Bounds of the model.                                                    *)
(***************************************************************************)
MaxDevices == 2
MaxSensors == 2
MaxRun == 6
MaxConfLines == 2

(***************************************************************************)
(* Program constants.                                                      *)
(***************************************************************************)
NULL == 0
I2C_WRITE_COMMAND == 224
I2C_READ_COMMAND == 225
I2C_RETRY_LIMIT == 5
CRC_POLYNOMIAL == 305
READ_ID == 61384
SOFT_RESET == 32861
MEASURE_T_RH_CLKSTR == 31906
T_PLUS == 24312
M_PLUS == 1762
T_MINUS == 27262
M_MINUS == 2246
FloatScale == 65536
UINT8 == 256
\* The content of a variable that was never assigned.
Indeterminate == -1

(***************************************************************************)
(* Bit operations of C on non-negative integers.                           *)
(***************************************************************************)
RECURSIVE BitXor(_, _)
BitXor(a, b) ==
    IF a = 0 THEN b
    ELSE IF b = 0 THEN a
    ELSE (((a % 2) + (b % 2)) % 2) + 2 * BitXor(a \div 2, b \div 2)

RECURSIVE BitAnd(_, _)
BitAnd(a, b) ==
    IF a = 0 \/ b = 0 THEN 0
    ELSE ((a % 2) * (b % 2)) + 2 * BitAnd(a \div 2, b \div 2)

B(report, k) == report[k + 1]

Report(b0, b1, b2, b3, b4, b5, b6) == <<b0, b1, b2, b3, b4, b5, b6>>

(***************************************************************************)
(* VerifyChecksum, lines 91-110.  crc is a uint8_t: the assignment of      *)
(* (crc << 1) ^ 0x131 keeps the low 8 bits.                                *)
(***************************************************************************)
\* The shift loop with the polynomial never applied.
RECURSIVE CrcShift_NoPolynomial(_, _)
CrcShift_NoPolynomial(crc, bit_counter) ==
    IF bit_counter = 0 THEN crc
    ELSE CrcShift_NoPolynomial((crc * 2) % UINT8, bit_counter - 1)

RECURSIVE CrcShift(_, _)
CrcShift(crc, bit_counter) ==
    IF bit_counter = 0 THEN crc
    ELSE IF BitAnd(crc, 128) # 0
         THEN CrcShift(BitXor(crc * 2, CRC_POLYNOMIAL) % UINT8, bit_counter - 1)
         ELSE CrcShift((crc * 2) % UINT8, bit_counter - 1)

RECURSIVE CrcBytes(_, _, _, _)
CrcBytes(crc, data, byte_counter, bytes_count) ==
    IF byte_counter >= bytes_count THEN crc
    ELSE CrcBytes(CrcShift(BitXor(crc, data[byte_counter + 1]), 8),
                  data, byte_counter + 1, bytes_count)

\* The value of crc after the loop of lines 97-105.  The checksums of the
\* two byte words the sticks of this model answer with are tabulated once.
DataWords == { 2119, 2117, 0, 26214, 32768 }

CrcTable ==
    [data \in { <<word \div UINT8, word % UINT8>> : word \in DataWords } |->
        CrcBytes(255, data, 0, 2)]

Crc(data, bytes_count) ==
    IF bytes_count = 2 /\ data \in DOMAIN CrcTable
    THEN CrcTable[data]
    ELSE CrcBytes(255, data, 0, bytes_count)

\* VerifyChecksum with the comparison of line 108 lost.
VerifyChecksum_NeverFails(data, bytes_count, received_checksum) == 0

VerifyChecksum(data, bytes_count, received_checksum) ==
    IF Crc(data, bytes_count) # received_checksum THEN -2 ELSE 0

(***************************************************************************)
(* ConvertTemperature and ConvertHumidity, lines 112-120, scaled by 65536. *)
(***************************************************************************)
ConvertTemperature(sensor_value) == 175 * sensor_value - 45 * FloatScale

ConvertHumidity(sensor_value) == 100 * sensor_value

\* A float constant of the source, as the dew point is held.
Float(v) == <<"float", v * FloatScale>>

\* The right-hand side of lines 268 and 509, kept as a term.
DewPointFormula(Tn, m, T, RH) == <<"dew", Tn, m, T, RH>>


(***************************************************************************)
(* I2C transaction codec.  Every operator returns the record of what the   *)
(* C function returns together with `steps`, the library calls and the     *)
(* checks it performed, in order.  A step is a tuple whose first element   *)
(* names the call; an IowKitWrite step carries the handle, the ReportID    *)
(* and the payload bytes of the report written.                            *)
(***************************************************************************)
Int8(v) == IF v >= 128 THEN v - UINT8 ELSE v

HighByte(command) == BitAnd(command \div UINT8, 255)

LowByte(command) == BitAnd(command, 255)

IowKitWrite(handle, report_id, bytes) == <<"IowKitWrite", handle, report_id, bytes>>

IowKitRead(handle) == <<"IowKitRead", handle>>

\* ReadI2c with the call of IowKitRead lost.
ReadI2c_ReplyNotRead(handle, count, reply) ==
    [report |-> Report(count, I2C_READ_COMMAND, 0, 0, 0, 0, 0),
     steps  |-> << IowKitWrite(handle, 3, Report(count, I2C_READ_COMMAND, 0, 0, 0, 0, 0)) >>]

\* ReadI2c, lines 122-138: `reply` is the report IowKitRead delivers.
ReadI2c(handle, count, reply) ==
    [report |-> reply,
     steps  |-> << IowKitWrite(handle, 3, Report(count, I2C_READ_COMMAND, 0, 0, 0, 0, 0)),
                   IowKitRead(handle) >>]

\* WriteI2C with the error bit masked off instead of tested.
WriteI2C_ErrorBitMasked(handle, command, reply) ==
    [ret   |-> Int8(BitAnd(B(reply, 0), 127)),
     steps |-> << IowKitWrite(handle, 2,
                      Report(195, I2C_WRITE_COMMAND, HighByte(command), LowByte(command), 0, 0, 0)),
                  IowKitRead(handle) >>]

\* WriteI2C with the reply left unread and the transfer taken as complete.
WriteI2C_AckAssumed(handle, command, reply) ==
    [ret   |-> 3,
     steps |-> << IowKitWrite(handle, 2,
                      Report(195, I2C_WRITE_COMMAND, HighByte(command), LowByte(command), 0, 0, 0)) >>]

\* WriteI2C, lines 140-166.
WriteI2C(handle, command, reply) ==
    [ret   |-> IF BitAnd(B(reply, 0), 128) # 0
               THEN -1
               ELSE Int8(B(reply, 0)),
     steps |-> << IowKitWrite(handle, 2,
                      Report(195, I2C_WRITE_COMMAND, HighByte(command), LowByte(command), 0, 0, 0)),
                  IowKitRead(handle) >>]

\* GetSensorId with the whole low byte of the ID word taken.
GetSensorId_LowByteUnmasked(handle, write_reply, read_reply) ==
    LET w == WriteI2C(handle, READ_ID, write_reply)
        r == ReadI2c(handle, 3, read_reply)
        return_report == r.report
        crc == VerifyChecksum(<<B(return_report, 1), B(return_report, 2)>>, 2, B(return_report, 3))
    IN  IF w.ret = 3
        THEN IF BitAnd(B(return_report, 0), 128) = 0
             THEN IF crc # 0
                  THEN [ret |-> -1, steps |-> w.steps \o r.steps \o << <<"VerifyChecksum", 1>> >>]
                  ELSE [ret   |-> Int8(BitAnd(B(return_report, 1) * UINT8 + B(return_report, 2), 255)),
                        steps |-> w.steps \o r.steps \o << <<"VerifyChecksum", 1>> >>]
             ELSE [ret |-> -1, steps |-> w.steps \o r.steps]
        ELSE [ret |-> -1, steps |-> w.steps]

\* GetSensorId with the test of the read reply's error bit lost.
GetSensorId_ReadAckIgnored(handle, write_reply, read_reply) ==
    LET w == WriteI2C(handle, READ_ID, write_reply)
        r == ReadI2c(handle, 3, read_reply)
        return_report == r.report
        crc == VerifyChecksum(<<B(return_report, 1), B(return_report, 2)>>, 2, B(return_report, 3))
    IN  IF w.ret = 3
        THEN IF crc # 0
             THEN [ret |-> -1, steps |-> w.steps \o r.steps \o << <<"VerifyChecksum", 1>> >>]
             ELSE [ret   |-> Int8(BitAnd(B(return_report, 1) * UINT8 + B(return_report, 2), 63)),
                   steps |-> w.steps \o r.steps \o << <<"VerifyChecksum", 1>> >>]
        ELSE [ret |-> -1, steps |-> w.steps]

\* GetSensorId, lines 168-188.
GetSensorId(handle, write_reply, read_reply) ==
    LET w == WriteI2C(handle, READ_ID, write_reply)
        r == ReadI2c(handle, 3, read_reply)
        return_report == r.report
        crc == VerifyChecksum(<<B(return_report, 1), B(return_report, 2)>>, 2, B(return_report, 3))
    IN  IF w.ret = 3
        THEN IF BitAnd(B(return_report, 0), 128) = 0
             THEN IF crc # 0
                  THEN [ret |-> -1, steps |-> w.steps \o r.steps \o << <<"VerifyChecksum", 1>> >>]
                  ELSE [ret   |-> Int8(BitAnd(B(return_report, 1) * UINT8 + B(return_report, 2), 63)),
                        steps |-> w.steps \o r.steps \o << <<"VerifyChecksum", 1>> >>]
             ELSE [ret |-> -1, steps |-> w.steps \o r.steps]
        ELSE [ret |-> -1, steps |-> w.steps]

\* EnableI2c, lines 190-200: one report written, none read.
EnableI2c(handle) ==
    << IowKitWrite(handle, 1, Report(1, 128, 0, 0, 0, 0, 0)) >>

\* DisableI2c, lines 202-211.
DisableI2c(handle) ==
    << IowKitWrite(handle, 1, Report(0, 0, 0, 0, 0, 0, 0)) >>

\* SendSoftReset, lines 278-286.
SendSoftReset(handle, write_reply) ==
    LET w == WriteI2C(handle, SOFT_RESET, write_reply)
    IN  [ret |-> IF w.ret = 3 THEN 0 ELSE -1, steps |-> w.steps]

\* The step names of a sequence of steps.
Ops(steps) == [i \in DOMAIN steps |-> steps[i][1]]

Did(steps, op) == \E i \in DOMAIN steps : steps[i][1] = op

Count(steps, op) == Cardinality({i \in DOMAIN steps : steps[i][1] = op})

(***************************************************************************)
(* GetMeasurements, lines 213-276.  temperature, humidity and dew_point    *)
(* are the values behind the three output pointers before the call; the    *)
(* result carries their values after it.                                   *)
(***************************************************************************)
GetMeasurements(handle, write_reply, read_reply, temperature, humidity, dew_point) ==
    LET w == WriteI2C(handle, MEASURE_T_RH_CLKSTR, write_reply)
        r == ReadI2c(handle, 6, read_reply)
        return_report == r.report
        crcT == VerifyChecksum(<<B(return_report, 1), B(return_report, 2)>>, 2, B(return_report, 3))
        crcH == VerifyChecksum(<<B(return_report, 4), B(return_report, 5)>>, 2, B(return_report, 6))
        T  == ConvertTemperature(B(return_report, 1) * UINT8 + B(return_report, 2))
        RH == ConvertHumidity(B(return_report, 4) * UINT8 + B(return_report, 5))
        Tn == IF T > 0 THEN T_PLUS ELSE T_MINUS
        m  == IF T > 0 THEN M_PLUS ELSE M_MINUS
        out(ret, t, h, d, steps) ==
            [ret |-> ret, temperature |-> t, humidity |-> h, dew_point |-> d, steps |-> steps]
    IN  IF w.ret # 3
        THEN out(-1, temperature, humidity, dew_point, w.steps)
        ELSE IF BitAnd(B(return_report, 0), 128) = 0
             THEN IF crcT # 0
                  THEN out(-2, temperature, humidity, dew_point,
                           w.steps \o r.steps \o << <<"VerifyChecksum", 1>> >>)
                  ELSE IF crcH # 0
                       THEN out(-3, T, humidity, dew_point,
                                w.steps \o r.steps \o
                                << <<"VerifyChecksum", 1>>, <<"ConvertTemperature">>,
                                   <<"VerifyChecksum", 4>> >>)
                       ELSE IF RH > 0
                            THEN out(0, T, RH, DewPointFormula(Tn, m, T, RH),
                                     w.steps \o r.steps \o
                                     << <<"VerifyChecksum", 1>>, <<"ConvertTemperature">>,
                                        <<"VerifyChecksum", 4>>, <<"ConvertHumidity">>,
                                        <<"logf">> >>)
                            ELSE out(0, T, RH, dew_point,
                                     w.steps \o r.steps \o
                                     << <<"VerifyChecksum", 1>>, <<"ConvertTemperature">>,
                                        <<"VerifyChecksum", 4>>, <<"ConvertHumidity">> >>)
             ELSE out(-1, temperature, humidity, dew_point, w.steps \o r.steps)

(***************************************************************************)
(* The sensor table.  info holds the message strncpy stores.               *)
(***************************************************************************)
INFO_STICK_NOT_FOUND == "ERROR: USB Stick not found!"
INFO_OK == "OK: USB Stick and Physical Sensor found!"
INFO_SENSOR_NOT_FOUND == "ERROR: Physical Sensor not found!"
INFO_UNKNOWN_SENSOR == "ERROR: Unknown Physical Sensor found!"

\* LoadConfiguration, lines 621-631: the record stored for one accepted line.
NewSensor(name, stick_serial_number) ==
    [stick_serial_number |-> stick_serial_number,
     usb_stick_handle    |-> NULL,
     temperature         |-> 1000 * FloatScale,
     humidity            |-> 1000 * FloatScale,
     dew_point           |-> Float(1000),
     name                |-> name,
     info                |-> INFO_STICK_NOT_FOUND]

\* Lines 55-63.  A line of the configuration file is the sequence of its
\* characters without the final new line character.
SENSOR_BINDING_LIST_START == <<"s", "e", "n", "s", "o", "r", "s", ":">>
BINDING_LIST_STOP == <<"e", "n", "d", ".">>
SEPARATION_CHAR == "\t"
MIN_CONF_LINE_LENGTH == 4
MAX_CONF_LINE_LENGTH == 40
IOWKIT_MAX_DEVICES == 16

DecimalDigits == <<"0", "1", "2", "3", "4", "5", "6", "7", "8", "9">>

IsDigit(c) == \E d \in DOMAIN DecimalDigits : DecimalDigits[d] = c

DigitValue(c) == (CHOOSE d \in DOMAIN DecimalDigits : DecimalDigits[d] = c) - 1

\* strtol(number_string, NULL, 10), lines 619 and 622: white space, then an
\* optional sign, then the longest run of decimal digits; 0 when there is no
\* digit.
RECURSIVE StrToL10Digits(_, _)
StrToL10Digits(chars, acc) ==
    IF chars = <<>> \/ ~IsDigit(Head(chars)) THEN acc
    ELSE StrToL10Digits(Tail(chars), 10 * acc + DigitValue(Head(chars)))

RECURSIVE StrToL10(_)
StrToL10(chars) ==
    IF chars = <<>> THEN 0
    ELSE IF Head(chars) \in {" ", SEPARATION_CHAR} THEN StrToL10(Tail(chars))
    ELSE IF Head(chars) = "-" THEN 0 - StrToL10Digits(Tail(chars), 0)
    ELSE IF Head(chars) = "+" THEN StrToL10Digits(Tail(chars), 0)
    ELSE StrToL10Digits(chars, 0)

\* (uint32_t) of a long, line 622: a negative value -n becomes 2^32 - n,
\* which is written as this difference and not computed.
Uint32(value) == IF value >= 0 THEN value ELSE <<"2^32 -", 0 - value>>

\* strchr(line, SEPARATION_CHAR) - line, line 593.  Without a separation
\* character strchr yields NULL and the difference is whatever the address
\* of the line makes it: null_difference.
SeparatorIndex(line, null_difference) ==
    IF \E i \in DOMAIN line : line[i] = SEPARATION_CHAR
    THEN (CHOOSE i \in DOMAIN line :
              /\ line[i] = SEPARATION_CHAR
              /\ \A j \in 1..(i - 1) : line[j] # SEPARATION_CHAR) - 1
    ELSE null_difference

\* LoadConfiguration, lines 581-643: what one line of the sensors section
\* leads to.  read is the result of getline, the length of the line with
\* its new line character.
ReadBindingLine(line, null_difference) ==
    LET read == Len(line) + 1
        separator_index == SeparatorIndex(line, null_difference)
        number_string == SubSeq(line, separator_index + 2, Len(line))
    IN  IF read < MIN_CONF_LINE_LENGTH THEN [kind |-> "too few"]
        ELSE IF read > MAX_CONF_LINE_LENGTH THEN [kind |-> "too many"]
        ELSE IF line = BINDING_LIST_STOP THEN [kind |-> "stop"]
        ELSE IF separator_index >= (read - 1) - 1 THEN [kind |-> "no data after"]
        ELSE IF separator_index < 0 THEN [kind |-> "missing separation character"]
        ELSE IF separator_index = 0 THEN [kind |-> "no data before"]
        ELSE IF StrToL10(number_string) # 0
             THEN [kind |-> "sensor",
                   sensor |-> NewSensor(SubSeq(line, 1, separator_index),
                                        Uint32(StrToL10(number_string)))]
             ELSE [kind |-> "not a decimal number"]

\* LoadConfiguration, lines 572-576: the lines after the starting phrase.
RECURSIVE SensorsSection(_)
SensorsSection(lines) ==
    IF lines = <<>> THEN <<>>
    ELSE IF Head(lines) = SENSOR_BINDING_LIST_START THEN Tail(lines)
    ELSE SensorsSection(Tail(lines))

\* LoadConfiguration, lines 579-645: the loop over the sensors section.
\* table holds the entries up to sensors_iterator; errors lists the lines
\* an error was printed for, each with the number printed.
RECURSIVE ReadBindings(_, _, _, _, _)
ReadBindings(lines, lines_iterator, table, errors, null_difference) ==
    IF lines = <<>> THEN [table |-> table, errors |-> errors]
    ELSE LET number == (lines_iterator + 1) % UINT8
             outcome == ReadBindingLine(Head(lines), null_difference)
         IN  IF outcome.kind = "stop" THEN [table |-> table, errors |-> errors]
             ELSE IF outcome.kind = "sensor"
                  THEN ReadBindings(Tail(lines), number, Append(table, outcome.sensor),
                                    errors, null_difference)
                  ELSE ReadBindings(Tail(lines), number, table,
                                    Append(errors, <<number, outcome.kind>>),
                                    null_difference)

\* LoadConfiguration, lines 551-653.  file.lines is the sequence of the
\* lines of the file "configuration"; fopen yields NULL when ~file.exists.
\* sensors_iterator is read at line 631 without having been given a value
\* (line 557): uninitialised holds the entries the table has below the
\* value it starts with.
LoadConfiguration(file, uninitialised, null_difference) ==
    IF ~file.exists
    THEN [ret |-> -1, table |-> <<>>, errors |-> << <<0, "missing configuration file">> >>]
    ELSE LET loaded == ReadBindings(SensorsSection(file.lines), 0, uninitialised, <<>>,
                                    null_difference)
         IN  [ret |-> 0, table |-> loaded.table, errors |-> loaded.errors]

\* GetUsbStickSerialNumber, lines 288-305: strtol(..., 16) of the serial
\* string, given as the sequence of its hexadecimal digits.  The string has
\* 8 digits, so the value fits the uint32_t it is cast to.
RECURSIVE StrToL16(_, _)
StrToL16(digits, acc) ==
    IF digits = <<>> THEN acc
    ELSE StrToL16(Tail(digits), 16 * acc + Head(digits))

GetUsbStickSerialNumber(serial_number_string) ==
    StrToL16(serial_number_string, 0)

(***************************************************************************)
(* InitializeSticksAndSensors, lines 402-428: the for loop that matches    *)
(* one stick against the sensor table, for the stick `handle` whose        *)
(* GetSensorId result is sensor_id.                                        *)
(***************************************************************************)
\* The matching loop without the break of line 426.
RECURSIVE MatchStick_NoBreak(_, _, _, _, _, _)
MatchStick_NoBreak(table, sensors_iterator, number_of_sensors, handle, serial, sensor_id) ==
    IF sensors_iterator >= number_of_sensors THEN table
    ELSE MatchStick_NoBreak(
             IF table[sensors_iterator + 1].stick_serial_number = serial
             THEN IF sensor_id = 7
                  THEN [table EXCEPT ![sensors_iterator + 1].usb_stick_handle = handle,
                                     ![sensors_iterator + 1].info = INFO_OK]
                  ELSE IF sensor_id = -1
                       THEN [table EXCEPT ![sensors_iterator + 1].info = INFO_SENSOR_NOT_FOUND]
                       ELSE [table EXCEPT ![sensors_iterator + 1].info = INFO_UNKNOWN_SENSOR]
             ELSE table,
             sensors_iterator + 1, number_of_sensors, handle, serial, sensor_id)

RECURSIVE MatchStick(_, _, _, _, _, _)
MatchStick(table, sensors_iterator, number_of_sensors, handle, serial, sensor_id) ==
    IF sensors_iterator >= number_of_sensors THEN table
    ELSE IF table[sensors_iterator + 1].stick_serial_number = serial
         THEN IF sensor_id = 7
              THEN [table EXCEPT ![sensors_iterator + 1].usb_stick_handle = handle,
                                 ![sensors_iterator + 1].info = INFO_OK]
              ELSE IF sensor_id = -1
                   THEN [table EXCEPT ![sensors_iterator + 1].info = INFO_SENSOR_NOT_FOUND]
                   ELSE [table EXCEPT ![sensors_iterator + 1].info = INFO_UNKNOWN_SENSOR]
         ELSE MatchStick(table, sensors_iterator + 1, number_of_sensors, handle, serial, sensor_id)

(***************************************************************************)
(* InitializeSticksAndSensors, lines 397-401: what one pass of the while   *)
(* loop does with the stick before the matching loop.  The result of       *)
(* SendSoftReset is not used.                                              *)
(***************************************************************************)
\* The pass with the identification issued before the soft reset.
InitializeOneStick_IdentifyFirst(handle, reset_reply, write_reply, read_reply) ==
    LET reset == SendSoftReset(handle, reset_reply)
        id == GetSensorId(handle, write_reply, read_reply)
    IN  [sensor_id |-> id.ret,
         steps |-> << <<"IowKitGetSerialNumber", handle>> >> \o EnableI2c(handle)
                   \o id.steps \o reset.steps]

InitializeOneStick(handle, reset_reply, write_reply, read_reply) ==
    LET reset == SendSoftReset(handle, reset_reply)
        id == GetSensorId(handle, write_reply, read_reply)
    IN  [sensor_id |-> id.ret,
         steps |-> << <<"IowKitGetSerialNumber", handle>> >> \o EnableI2c(handle)
                   \o reset.steps \o id.steps]

(***************************************************************************)
(* CheckSensorsPresence, lines 433-448.  missing_sensors_number is a       *)
(* uint8_t; the function returns its negation.                             *)
(***************************************************************************)
\* CountMissing with the loop ending one entry early.
RECURSIVE CountMissing_SkipsFirstEntry(_, _, _)
CountMissing_SkipsFirstEntry(table, number_of_sensors, missing_sensors_number) ==
    IF number_of_sensors <= 1 THEN missing_sensors_number
    ELSE CountMissing_SkipsFirstEntry(table, number_of_sensors - 1,
                      IF table[number_of_sensors].usb_stick_handle = NULL
                      THEN (missing_sensors_number + 1) % UINT8
                      ELSE missing_sensors_number)

RECURSIVE CountMissing(_, _, _)
CountMissing(table, number_of_sensors, missing_sensors_number) ==
    IF number_of_sensors = 0 THEN missing_sensors_number
    ELSE CountMissing(table, number_of_sensors - 1,
                      IF table[number_of_sensors].usb_stick_handle = NULL
                      THEN (missing_sensors_number + 1) % UINT8
                      ELSE missing_sensors_number)

CheckSensorsPresence(table, number_of_sensors) ==
    LET missing_sensors_number == CountMissing(table, number_of_sensors, 0)
    IN  [ret |-> IF missing_sensors_number # 0 THEN -missing_sensors_number ELSE 0,
         missing_sensors_number |-> missing_sensors_number]

\* MeasureSensor with the temperature stored at line 483, before the
\* checksum of the humidity is verified.
MeasureSensor_StoresBeforeHumidityCheck(table, n, write_reply, read_reply) ==
    LET handle == table[n].usb_stick_handle
        w == WriteI2C(handle, MEASURE_T_RH_CLKSTR, write_reply)
        r == ReadI2c(handle, 6, read_reply)
        return_report == r.report
        crcT == VerifyChecksum(<<B(return_report, 1), B(return_report, 2)>>, 2, B(return_report, 3))
        crcH == VerifyChecksum(<<B(return_report, 4), B(return_report, 5)>>, 2, B(return_report, 6))
        T  == ConvertTemperature(B(return_report, 1) * UINT8 + B(return_report, 2))
        RH == ConvertHumidity(B(return_report, 4) * UINT8 + B(return_report, 5))
        Tn == IF T > 0 THEN T_PLUS ELSE T_MINUS
        m  == IF T > 0 THEN M_PLUS ELSE M_MINUS
        DP == IF RH > 0 THEN DewPointFormula(Tn, m, T, RH) ELSE Float(1000)
        out(ret, tbl, steps) ==
            [ret |-> ret, table |-> tbl, steps |-> steps, visited |-> {n}]
    IN  IF w.ret # 3
        THEN out(-1, table, w.steps)
        ELSE IF BitAnd(B(return_report, 0), 128) = 0
             THEN IF crcT # 0
                  THEN out(-2, table, w.steps \o r.steps \o << <<"VerifyChecksum", 1>> >>)
                  ELSE IF crcH # 0
                       THEN out(-3, [table EXCEPT ![n].temperature = T],
                                w.steps \o r.steps \o
                                << <<"VerifyChecksum", 1>>, <<"ConvertTemperature">>,
                                   <<"VerifyChecksum", 4>> >>)
                       ELSE out(0,
                                [table EXCEPT ![n].temperature = T,
                                              ![n].humidity = RH,
                                              ![n].dew_point = DP],
                                w.steps \o r.steps \o
                                << <<"VerifyChecksum", 1>>, <<"ConvertTemperature">>,
                                   <<"VerifyChecksum", 4>>, <<"ConvertHumidity">> >>
                                \o (IF RH > 0 THEN << <<"logf">> >> ELSE <<>>))
             ELSE out(-1, table, w.steps \o r.steps)

(***************************************************************************)
(* UpdateSensorsMeasurements, lines 450-522.  The while loop walks the     *)
(* table from its last entry down.  Every path through the body of         *)
(* `if (usb_stick_handle)` ends in a return statement (lines 468, 479,      *)
(* 489, 514, 518), so one call performs at most one measurement and uses   *)
(* at most one write reply and one read reply.  When the loop ends with    *)
(* no entry that has a handle the function ends without a return           *)
(* statement: its value is then undefined_return.                          *)
(* visited is the set of entries whose measurement was started.            *)
(***************************************************************************)
MeasureSensor(table, n, write_reply, read_reply) ==
    LET handle == table[n].usb_stick_handle
        w == WriteI2C(handle, MEASURE_T_RH_CLKSTR, write_reply)
        r == ReadI2c(handle, 6, read_reply)
        return_report == r.report
        crcT == VerifyChecksum(<<B(return_report, 1), B(return_report, 2)>>, 2, B(return_report, 3))
        crcH == VerifyChecksum(<<B(return_report, 4), B(return_report, 5)>>, 2, B(return_report, 6))
        T  == ConvertTemperature(B(return_report, 1) * UINT8 + B(return_report, 2))
        RH == ConvertHumidity(B(return_report, 4) * UINT8 + B(return_report, 5))
        Tn == IF T > 0 THEN T_PLUS ELSE T_MINUS
        m  == IF T > 0 THEN M_PLUS ELSE M_MINUS
        DP == IF RH > 0 THEN DewPointFormula(Tn, m, T, RH) ELSE Float(1000)
        out(ret, tbl, steps) ==
            [ret |-> ret, table |-> tbl, steps |-> steps, visited |-> {n}]
    IN  IF w.ret # 3
        THEN out(-1, table, w.steps)
        ELSE IF BitAnd(B(return_report, 0), 128) = 0
             THEN IF crcT # 0
                  THEN out(-2, table, w.steps \o r.steps \o << <<"VerifyChecksum", 1>> >>)
                  ELSE IF crcH # 0
                       THEN out(-3, table,
                                w.steps \o r.steps \o
                                << <<"VerifyChecksum", 1>>, <<"ConvertTemperature">>,
                                   <<"VerifyChecksum", 4>> >>)
                       ELSE out(0,
                                [table EXCEPT ![n].temperature = T,
                                              ![n].humidity = RH,
                                              ![n].dew_point = DP],
                                w.steps \o r.steps \o
                                << <<"VerifyChecksum", 1>>, <<"ConvertTemperature">>,
                                   <<"VerifyChecksum", 4>>, <<"ConvertHumidity">> >>
                                \o (IF RH > 0 THEN << <<"logf">> >> ELSE <<>>))
             ELSE out(-1, table, w.steps \o r.steps)

RECURSIVE UpdateSensorsMeasurements(_, _, _, _, _)
UpdateSensorsMeasurements(table, number_of_sensors, write_reply, read_reply, undefined_return) ==
    IF number_of_sensors = 0
    THEN [ret |-> undefined_return, table |-> table, steps |-> <<>>, visited |-> {}]
    ELSE IF table[number_of_sensors].usb_stick_handle # NULL
         THEN MeasureSensor(table, number_of_sensors, write_reply, read_reply)
         ELSE UpdateSensorsMeasurements(table, number_of_sensors - 1,
                                        write_reply, read_reply, undefined_return)

(***************************************************************************)
(* The environment: the sticks the library enumerates, the configuration   *)
(* that was loaded, and the reports the sticks answer with.                *)
(***************************************************************************)
\* Serial number strings of sticks: "00001AD9" (6873) and "00001825" (6181).
SerialStrings == { <<0, 0, 0, 0, 1, 10, 13, 9>>, <<0, 0, 0, 0, 1, 8, 2, 5>> }

\* Serial numbers a configuration line may name.
TargetSerials == { 6873, 6181, 6367 }

SensorNames == <<"outer", "inner", "inner_left", "inner_right">>

DeviceLists == UNION { [1..n -> SerialStrings] : n \in 0..MaxDevices }

SensorTables ==
    UNION { { [i \in 1..n |-> NewSensor(SensorNames[i], f[i])] : f \in [1..n -> TargetSerials] }
            : n \in 0..MaxSensors }

\* Values an uninitialised uint8_t may hold.
StackGarbage == { 0, 4, 255 }

\* Values a function that ends without a return statement may yield.
UndefinedReturns == { 0, -1 }

\* First byte of the reply to an I2C write: 3 bytes acknowledged, 2 bytes
\* acknowledged, error bit set.
WriteAcks == { 3, 2, 131 }

WriteReplies == { Report(a, 0, 0, 0, 0, 0, 0) : a \in WriteAcks }

\* A checksum byte for the word, right or with one bit flipped.
Checksum(word, good) ==
    LET c == CrcBytes(255, <<word \div UINT8, word % UINT8>>, 0, 2)
    IN  IF good THEN c ELSE BitXor(c, 1)

\* ID register values 0x0847 (product code 7) and 0x0845 (product code 5).
IdWords == { 2119, 2117 }

\* Raw temperatures 0 and 0x6666 and raw humidities 0 and 0x8000.
TWords == { 0, 26214 }

HWords == { 0, 32768 }

\* Replies to the 3 byte read of the ID register; `a` is the first byte.
IdReply(a, word, good) ==
    Report(a, word \div UINT8, word % UINT8, Checksum(word, good), 0, 0, 0)

\* Replies to the 6 byte read of a measurement.
MeasureReply(a, tword, tgood, hword, hgood) ==
    Report(a, tword \div UINT8, tword % UINT8, Checksum(tword, tgood),
              hword \div UINT8, hword % UINT8, Checksum(hword, hgood))

\* The exchanges of one identification: the reply to the READ_ID write and
\* the reply to the read.  A stick that did not acknowledge the 3 bytes of a
\* command answers a read with the error bit set.
\* `in` names what the environment chose: the first byte of the write reply,
\* the first byte of the read reply, the ID word and whether its checksum is
\* right.
NoIdInput == [w |-> 0, r |-> 0, word |-> 0, good |-> FALSE]

IdExchanges ==
    { [in |-> [w |-> w, r |-> a, word |-> word, good |-> good],
       write_reply |-> Report(w, 0, 0, 0, 0, 0, 0), read_reply |-> IdReply(a, word, good)] :
        w \in WriteAcks, a \in {3, 131}, word \in IdWords, good \in BOOLEAN }

\* The exchanges the sticks of the model make: a reply with the error bit
\* set carries the ID word 0x0847 with its right checksum, which the code
\* must not look at.
IdExchangeAllowed(x) ==
    /\ B(x.write_reply, 0) # 3 => BitAnd(B(x.read_reply, 0), 128) # 0
    /\ BitAnd(B(x.read_reply, 0), 128) # 0 => (x.in.word = 2119 /\ x.in.good)

\* The exchanges of one measurement.  `in` names what the environment chose:
\* the first byte of the write reply, the first byte of the read reply and
\* whether the two checksums of the read reply are right.
NoInput == [w |-> 0, r |-> 0, t |-> FALSE, h |-> FALSE]

MeasureInputs ==
    { in \in [w : WriteAcks, r : {6, 134}, t : BOOLEAN, h : BOOLEAN] :
        /\ in.w # 3 => (in.r = 134 /\ ~in.t /\ ~in.h)
        /\ in.r = 134 => (in.t = in.h) }

MeasureExchanges ==
    { [in |-> in,
       write_reply |-> Report(in.w, 0, 0, 0, 0, 0, 0),
       read_reply  |-> MeasureReply(in.r, tword, in.t, hword, in.h)] :
        in \in MeasureInputs, tword \in TWords, hword \in HWords }

AllowedIdExchanges == { x \in IdExchanges : IdExchangeAllowed(x) }

\* InitializeOneStick and GetUsbStickSerialNumber on the sticks and replies
\* of the model, tabulated once.
OneStickPasses ==
    [handle \in 1..MaxDevices |->
        [reset_reply \in WriteReplies |->
            [x \in AllowedIdExchanges |->
                InitializeOneStick(handle, reset_reply, x.write_reply, x.read_reply)]]]

StickSerialNumbers ==
    [serial_number_string \in SerialStrings |->
        GetUsbStickSerialNumber(serial_number_string)]

\* The exchanges an update call is given.  The words of the read reply vary
\* where the call stores what it converts from them, that is when both
\* checksums are right; a read reply with the error bit set after an
\* acknowledged write carries right checksums, which the call must not look
\* at; a call on a table with no stick attached makes no exchange.
PolledExchanges ==
    { x \in MeasureExchanges :
        /\ (x.in.w = 3 /\ x.in.r = 134) => x.in.t
        /\ \/ x.in.w = 3 /\ x.in.r = 6 /\ x.in.t /\ x.in.h
           \/ /\ B(x.read_reply, 1) * UINT8 + B(x.read_reply, 2) = 26214
              /\ B(x.read_reply, 4) * UINT8 + B(x.read_reply, 5) = 32768 }

NoExchange ==
    [in |-> NoInput, write_reply |-> Report(0, 0, 0, 0, 0, 0, 0),
     read_reply |-> Report(0, 0, 0, 0, 0, 0, 0)]

VARIABLES
    pc,                    \* position in main
    devices,               \* serial number strings of the enumerated sticks
    sensors_table,         \* table_of_sensors[0 .. number_of_sensors - 1]
    number_of_devices,     \* loop counter of InitializeSticksAndSensors
    sensor_ids,            \* result of GetSensorId for each handle
    presence,              \* result of CheckSensorsPresence
    infinite_loop_control, \* flag cleared by InterruptHandler
    retry_counter,         \* main's uint8_t retry_counter (never initialised)
    exit_code,             \* value main returned
    update,                \* the last UpdateSensorsMeasurements call
    ack_fail_run,          \* per entry: consecutive calls its measurement ended -1
    bind,                  \* the last pass of the loop of InitializeSticksAndSensors
    closing,               \* the library calls of lines 743-756
    configuration          \* the call of LoadConfiguration at line 664

vars == <<pc, devices, sensors_table, number_of_devices, sensor_ids,
          presence, infinite_loop_control, retry_counter, exit_code, update,
          ack_fail_run, bind, closing, configuration>>

number_of_sensors == Len(sensors_table)

BoundEntries(table) == { i \in DOMAIN table : table[i].usb_stick_handle # NULL }

\* update records the last call of UpdateSensorsMeasurements: its result,
\* its steps, the entries bound when it was called (bound), the entries it
\* started a measurement on (visited), the entries whose stored values it
\* changed (changed), the replies it was given (in) and whether the signal
\* had arrived before it ended (signalled).
NoUpdate ==
    [called |-> FALSE, ret |-> 0, steps |-> <<>>, visited |-> {}, bound |-> {}, changed |-> {},
     in |-> NoInput, signalled |-> FALSE]

\* bind records the last pass of the while loop of
\* InitializeSticksAndSensors: the stick it handled, the replies it was given
\* (in) and its steps.  It is kept until CheckSensorsPresence has run.
NoBind ==
    [called |-> FALSE, handle |-> NULL, in |-> NoIdInput, steps |-> <<>>]

\* configuration records the call of LoadConfiguration: the file it was
\* given, its result and the errors it printed.  main goes on from line 666
\* with the file closed; NoConfiguration stands for a call that is not
\* looked at.
NoFile == [exists |-> FALSE, lines |-> <<>>]

NoConfiguration ==
    [called |-> FALSE, file |-> NoFile, ret |-> 0, errors |-> <<>>, uninitialised |-> 0]

Init ==
    /\ pc = "open"
    /\ devices \in DeviceLists
    /\ sensors_table \in SensorTables
    /\ number_of_devices = 0
    /\ sensor_ids = [h \in DOMAIN devices |-> -1]
    /\ presence = [ret |-> 0, missing_sensors_number |-> 0]
    /\ infinite_loop_control = 1
    /\ retry_counter = Indeterminate
    /\ exit_code = 0
    /\ update = NoUpdate
    /\ ack_fail_run = [i \in DOMAIN sensors_table |-> 0]
    /\ bind = NoBind
    /\ closing = <<>>
    /\ configuration = NoConfiguration

\* The signal with its default action, as if no handler were installed.
InterruptHandler_Terminates ==
    /\ pc # "exit"
    /\ infinite_loop_control = 1
    /\ infinite_loop_control' = 0
    /\ pc' = "exit"
    /\ UNCHANGED <<devices, sensors_table, number_of_devices, sensor_ids,
                   presence, retry_counter, exit_code, update, ack_fail_run,
                   bind, closing, configuration>>

\* InterruptHandler, lines 86-89, installed at line 668.  The signal may
\* arrive at any position of main, also inside a cycle of the loop.
InterruptHandler ==
    /\ pc # "exit"
    /\ infinite_loop_control = 1
    /\ infinite_loop_control' = 0
    /\ UNCHANGED <<pc, devices, sensors_table, number_of_devices, sensor_ids,
                   presence, retry_counter, exit_code, update, ack_fail_run,
                   bind, closing, configuration>>

\* main, lines 686-696 and 754-760: no stick found ends the program.
OpenDevice ==
    /\ pc = "open"
    /\ IF Len(devices) = 0
       THEN /\ pc' = "exit" /\ exit_code' = 0 /\ number_of_devices' = 0
            /\ closing' = << <<"IowKitCloseDevice", NULL>> >>
       ELSE /\ pc' = "init" /\ exit_code' = exit_code /\ number_of_devices' = Len(devices)
            /\ closing' = closing
    /\ UNCHANGED <<devices, sensors_table, sensor_ids, presence,
                   infinite_loop_control, retry_counter, update, ack_fail_run, bind, configuration>>

\* InitializeSticksAndSensors, lines 394-430: one pass of the while loop.
InitializeStick ==
    /\ pc = "init"
    /\ number_of_devices > 0
    /\ \E reset_reply \in WriteReplies, x \in AllowedIdExchanges :
          LET handle == number_of_devices
              one == OneStickPasses[handle][reset_reply][x]
              serial == StickSerialNumbers[devices[handle]]
          IN  /\ sensor_ids' = [sensor_ids EXCEPT ![handle] = one.sensor_id]
              /\ sensors_table' = MatchStick(sensors_table, 0, number_of_sensors,
                                             handle, serial, one.sensor_id)
              /\ bind' = [called |-> TRUE, handle |-> handle, in |-> x.in,
                          steps |-> one.steps \o << <<"match", handle>> >>]
    /\ number_of_devices' = number_of_devices - 1
    /\ pc' = IF number_of_devices' = 0 THEN "check" ELSE "init"
    /\ UNCHANGED <<devices, presence, infinite_loop_control,
                   retry_counter, exit_code, update, ack_fail_run, closing, configuration>>

\* main, line 698: the result is not used.
CheckPresence ==
    /\ pc = "check"
    /\ presence' = CheckSensorsPresence(sensors_table, number_of_sensors)
    /\ pc' = "update"
    /\ bind' = NoBind
    /\ UNCHANGED <<devices, sensors_table, number_of_devices, sensor_ids,
                   infinite_loop_control, retry_counter, exit_code, update, ack_fail_run,
                   closing, configuration>>

\* The replies a call of UpdateSensorsMeasurements on the table can use, and
\* the values it can yield by ending without a return statement.
CallExchanges(table) ==
    IF BoundEntries(table) = {} THEN {NoExchange} ELSE PolledExchanges

CallUndefinedReturns(table) ==
    IF BoundEntries(table) = {} THEN UndefinedReturns ELSE {0}

\* One call of UpdateSensorsMeasurements on the current table.
UpdateCall(x, undefined_return) ==
    UpdateSensorsMeasurements(sensors_table, number_of_sensors,
                              x.write_reply, x.read_reply, undefined_return)

Changed(before, after) ==
    { i \in DOMAIN before :
        \/ after[i].temperature # before[i].temperature
        \/ after[i].humidity # before[i].humidity
        \/ after[i].dew_point # before[i].dew_point }

Observe(res, x) ==
    /\ update' = [called |-> TRUE, ret |-> res.ret, steps |-> res.steps, visited |-> res.visited,
                  bound |-> BoundEntries(sensors_table),
                  changed |-> Changed(sensors_table, res.table),
                  in |-> IF res.visited = {} THEN NoInput ELSE x.in,
                  signalled |-> infinite_loop_control = 0]
    /\ ack_fail_run' = [i \in DOMAIN sensors_table |->
                          IF i \in res.visited
                          THEN IF res.ret = -1
                               THEN (IF ack_fail_run[i] < MaxRun
                                     THEN ack_fail_run[i] + 1 ELSE MaxRun)
                               ELSE 0
                          ELSE ack_fail_run[i]]

\* main, lines 706-708: the first update; its result is not used.
FirstUpdateThen(next_pc) ==
    /\ pc = "update"
    /\ \E x \in CallExchanges(sensors_table), u \in CallUndefinedReturns(sensors_table) :
          LET res == UpdateCall(x, u)
          IN  /\ sensors_table' = res.table
              /\ Observe(res, x)
    /\ pc' = next_pc
    /\ UNCHANGED <<devices, number_of_devices, sensor_ids, presence,
                   infinite_loop_control, retry_counter, exit_code, bind, closing, configuration>>

\* main, line 710: the while condition holds and the body is entered.
LoopEnter ==
    /\ pc = "loop"
    /\ infinite_loop_control # 0
    /\ pc' = "cycle"
    /\ UNCHANGED <<devices, sensors_table, number_of_devices, sensor_ids,
                   presence, infinite_loop_control, retry_counter, exit_code, update,
                   ack_fail_run, bind, closing, configuration>>

\* main, lines 712-740: the body of the while loop.  The counter i of the
\* plot refresh (lines 722-727) drives only a call that is commented out
\* and is left out.
LoopIteration ==
    /\ pc = "cycle"
    /\ \E x \in CallExchanges(sensors_table), u \in CallUndefinedReturns(sensors_table) :
          LET res == UpdateCall(x, u)
          IN  /\ sensors_table' = res.table
              /\ Observe(res, x)
              /\ IF res.ret = 0
                 THEN /\ retry_counter' = 0
                      /\ pc' = "loop"
                      /\ exit_code' = exit_code
                 ELSE /\ \E value \in (IF retry_counter = Indeterminate
                                         THEN StackGarbage ELSE {retry_counter}) :
                            retry_counter' = (value + 1) % UINT8
                      /\ IF retry_counter' >= I2C_RETRY_LIMIT
                         THEN pc' = "exit" /\ exit_code' = -1
                         ELSE pc' = "loop" /\ exit_code' = exit_code
    /\ UNCHANGED <<devices, number_of_devices, sensor_ids, presence,
                   infinite_loop_control, bind, closing, configuration>>

\* main, line 710: the loop ends when the flag is cleared.
LoopExit ==
    /\ pc = "loop"
    /\ infinite_loop_control = 0
    /\ pc' = "close"
    /\ UNCHANGED <<devices, sensors_table, number_of_devices, sensor_ids,
                   presence, infinite_loop_control, retry_counter, exit_code, update,
                   ack_fail_run, bind, closing, configuration>>

\* main, lines 743-760: handle is handles_table[0].
Close ==
    /\ pc = "close"
    /\ pc' = "exit"
    /\ exit_code' = 0
    /\ closing' = DisableI2c(1) \o << <<"IowKitCloseDevice", 1>> >>
    /\ UNCHANGED <<devices, sensors_table, number_of_devices, sensor_ids,
                   presence, infinite_loop_control, retry_counter, update, ack_fail_run,
                   bind, configuration>>

(***************************************************************************)
(* The program as compiled: after the update of line 706 main closes.      *)
(***************************************************************************)
FirstUpdate == FirstUpdateThen("close")

Next ==
    \/ InterruptHandler
    \/ OpenDevice
    \/ InitializeStick
    \/ CheckPresence
    \/ FirstUpdate
    \/ Close

Spec == Init /\ [][Next]_vars

(***************************************************************************)
(* main with the polling loop of lines 710-741, from line 706 on.  The     *)
(* table is one the bind pass can leave: entry i is bound to stick i or    *)
(* has no stick.                                                           *)
(***************************************************************************)
LoopSticks == [h \in 1..MaxSensors |-> <<0, 0, 0, 0, 1, 10, 13, 9 - h>>]

BoundTables ==
    UNION { { [i \in 1..n |->
                 IF i \in bound
                 THEN [NewSensor(SensorNames[i], GetUsbStickSerialNumber(LoopSticks[i]))
                         EXCEPT !.usb_stick_handle = i, !.info = INFO_OK]
                 ELSE NewSensor(SensorNames[i], GetUsbStickSerialNumber(LoopSticks[i]))] :
              bound \in SUBSET (1..n) }
            : n \in 0..MaxSensors }

InitLoop ==
    /\ pc = "update"
    /\ devices = LoopSticks
    /\ sensors_table \in BoundTables
    /\ number_of_devices = 0
    /\ sensor_ids = [h \in DOMAIN devices |->
                        IF h \in BoundEntries(sensors_table) THEN 7 ELSE -1]
    /\ presence = CheckSensorsPresence(sensors_table, number_of_sensors)
    /\ infinite_loop_control = 1
    /\ retry_counter = Indeterminate
    /\ exit_code = 0
    /\ update = NoUpdate
    /\ ack_fail_run = [i \in DOMAIN sensors_table |-> 0]
    /\ bind = NoBind
    /\ closing = <<>>
    /\ configuration = NoConfiguration

FirstUpdateLoop == FirstUpdateThen("loop")

NextLoop ==
    \/ InterruptHandler
    \/ FirstUpdateLoop
    \/ LoopEnter
    \/ LoopIteration
    \/ LoopExit
    \/ Close

SpecLoop == InitLoop /\ [][NextLoop]_vars

(***************************************************************************)
(* main up to line 664: the call of LoadConfiguration on a file.  Every    *)
(* line of the file ends with a new line character.                        *)
(***************************************************************************)
BindingLines ==
    { <<"i", "n", "\t", "6", "8", "7", "3">>,
      <<"i", "n", "\t", "6", "1", "8", "1">>,
      <<"o", "u", "t", "\t", "6", "8", "7", "3">>,
      <<"i", "n", "\t", "0">>,
      <<"i", "n", "\t">>,
      <<"\t", "6", "8", "7", "3">>,
      <<"i", "n", "n", "e", "r">>,
      <<"a">>,
      [i \in 1..MAX_CONF_LINE_LENGTH |-> "x"] }

SectionBodies == UNION { [1..n -> BindingLines] : n \in 0..MaxConfLines }

SectionEnds ==
    { <<>>, <<BINDING_LIST_STOP>>,
      <<BINDING_LIST_STOP, <<"o", "u", "t", "\t", "6", "8", "7", "3">> >> }

Preambles == { <<>>, << <<"#", " ", "r", "i", "g">> >> }

ConfigurationFiles ==
    {NoFile}
    \cup { [exists |-> TRUE, lines |-> body] : body \in SectionBodies }
    \cup { [exists |-> TRUE,
            lines |-> before \o <<SENSOR_BINDING_LIST_START>> \o body \o end] :
              before \in Preambles, body \in SectionBodies, end \in SectionEnds }

\* Values sensors_iterator may hold when line 631 first reads it, and what
\* an entry of main's table_of_sensors (line 662, not initialised) may hold.
UninitialisedIterators == { 0, 1, 255 }

UninitialisedEntries ==
    { [stick_serial_number |-> 0, usb_stick_handle |-> NULL, temperature |-> 0,
       humidity |-> 0, dew_point |-> Float(0), name |-> <<>>, info |-> ""],
      [stick_serial_number |-> 6873, usb_stick_handle |-> 1, temperature |-> 0,
       humidity |-> 0, dew_point |-> Float(0), name |-> <<"i", "n">>, info |-> ""] }

\* Values of NULL - line at line 593.
NullDifferences == { -4096, 4096 }

InitLoad ==
    /\ pc = "load"
    /\ devices = <<>>
    /\ sensors_table = <<>>
    /\ number_of_devices = 0
    /\ sensor_ids = <<>>
    /\ presence = [ret |-> 0, missing_sensors_number |-> 0]
    /\ infinite_loop_control = 1
    /\ retry_counter = Indeterminate
    /\ exit_code = 0
    /\ update = NoUpdate
    /\ ack_fail_run = <<>>
    /\ bind = NoBind
    /\ closing = <<>>
    /\ \E file \in ConfigurationFiles :
          configuration = [NoConfiguration EXCEPT !.file = file]

\* main, line 664: the result of LoadConfiguration is not used.  A value of
\* sensors_iterator above the size of the table (line 662) makes main go on
\* with a number_of_sensors that the table does not hold: "overrun".
LoadConfigurationCall ==
    /\ pc = "load"
    /\ \E start \in UninitialisedIterators, null_difference \in NullDifferences :
       \E uninitialised \in [1..(IF start < IOWKIT_MAX_DEVICES THEN start ELSE 0)
                                -> UninitialisedEntries] :
          LET res == LoadConfiguration(configuration.file, uninitialised, null_difference)
              held == res.ret = -1 \/ (start + Len(res.table)) <= IOWKIT_MAX_DEVICES
          IN  /\ sensors_table' = (IF held THEN res.table ELSE <<>>)
              /\ ack_fail_run' = [i \in DOMAIN sensors_table' |-> 0]
              /\ pc' = (IF held THEN "loaded" ELSE "overrun")
              /\ configuration' = [configuration EXCEPT !.called = TRUE, !.ret = res.ret,
                                       !.errors = res.errors,
                                       !.uninitialised = IF res.ret = -1 THEN 0 ELSE start]
    /\ UNCHANGED <<devices, number_of_devices, sensor_ids, presence,
                   infinite_loop_control, retry_counter, exit_code, update, bind, closing>>

NextLoad == LoadConfigurationCall

SpecLoad == InitLoad /\ [][NextLoad]_vars

(***************************************************************************)
(* Properties.                                                             *)
(***************************************************************************)
\* The last update call started a measurement.
Measured == update.called /\ update.visited # {}

ErrorBit(byte) == BitAnd(byte, 128) # 0

\* The steps of a call name a report written with this ReportID.
Wrote(steps, report_id) ==
    \E i \in DOMAIN steps : steps[i][1] = "IowKitWrite" /\ steps[i][3] = report_id

\* C1: in one call of the per-cycle update, a measurement is started on
\* every entry that had a stick handle when the call began.
C1_EveryBoundSensorMeasured ==
    update.called => update.visited = update.bound

\* C2: an error in the measurement of one entry (result -1, -2 or -3) does
\* not keep the other bound entries from being measured in the same call,
\* and does not end the program with the failure code.
C2_ErrorsAreLocal ==
    /\ (Measured /\ update.ret \in {-1, -2, -3}) => update.bound \subseteq update.visited
    /\ exit_code # -1

\* C3: an entry whose measurement ended with an ack failure in 5 consecutive
\* update calls is disconnected (it has no handle, so it is not measured
\* again) and the program has not ended with the failure code.
C3_DisconnectAfterFiveAckFailures ==
    \A i \in DOMAIN sensors_table :
        ack_fail_run[i] >= I2C_RETRY_LIMIT =>
            /\ sensors_table[i].usb_stick_handle = NULL
            /\ ~(pc = "exit" /\ exit_code = -1)

\* C4: the failure counter starts at zero and every success resets it, so
\* the retry limit is reached only by an entry with 5 consecutive ack
\* failures.
C4_LimitOnlyAfterFiveAckFailures ==
    (pc = "exit" /\ exit_code = -1 /\ Measured) =>
        \E i \in update.visited : ack_fail_run[i] >= I2C_RETRY_LIMIT

\* C5: a checksum failure (result -2 or -3) does not count towards the
\* retry limit, so the call that reaches the limit never ended with one.
C5_ChecksumFailureNotCounted ==
    (pc = "exit" /\ exit_code = -1 /\ Measured) => update.ret \notin {-2, -3}

\* GetMeasurements on the replies of exchange x, with outputs that hold the
\* initial values of a table entry.
GetMeasurementsOn(x) ==
    GetMeasurements(1, x.write_reply, x.read_reply,
                    1000 * FloatScale, 1000 * FloatScale, Float(1000))

OutputsUntouched(g) ==
    /\ g.temperature = 1000 * FloatScale
    /\ g.humidity = 1000 * FloatScale
    /\ g.dew_point = Float(1000)

\* The steps end after the temperature checksum was verified.
StopsAtTemperatureChecksum(steps) ==
    /\ Count(steps, "VerifyChecksum") = 1
    /\ ~Did(steps, "ConvertTemperature")
    /\ ~Did(steps, "ConvertHumidity")
    /\ ~Did(steps, "logf")

\* GetMeasurements on every reply with a wrong temperature checksum.
GetMeasurementsStopsAtTemperature ==
    \A x \in MeasureExchanges :
        (x.in.w = 3 /\ ~ErrorBit(x.in.r) /\ ~x.in.t) =>
            LET g == GetMeasurementsOn(x)
            IN  /\ g.ret = -2
                /\ StopsAtTemperatureChecksum(g.steps)
                /\ OutputsUntouched(g)

\* C6: when the acknowledged 6 byte reply has a wrong temperature checksum,
\* the measurement ends with the temperature checksum error (-2), the
\* humidity checksum is not verified, nothing is converted, no dew point is
\* computed and no output is written; in UpdateSensorsMeasurements and in
\* GetMeasurements.
C6_TemperatureChecksumError ==
    /\ (Measured /\ update.in.w = 3 /\ ~ErrorBit(update.in.r) /\ ~update.in.t) =>
          /\ update.ret = -2
          /\ StopsAtTemperatureChecksum(update.steps)
          /\ update.changed = {}
    /\ GetMeasurementsStopsAtTemperature

C6_Witness ==
    /\ Measured /\ update.in.w = 3 /\ ~ErrorBit(update.in.r) /\ ~update.in.t
    /\ update.ret = -2
    /\ pc = "close"

\* C7: when the temperature checksum is right and the humidity checksum is
\* wrong, the measurement ends with the humidity checksum error (-3), the
\* temperature converted from the reply is stored for the caller, and
\* humidity and dew point keep their values.
C7_HumidityChecksumError ==
    (Measured /\ update.in.w = 3 /\ ~ErrorBit(update.in.r) /\ update.in.t /\ ~update.in.h) =>
        /\ update.ret = -3
        /\ \A i \in update.visited :
              /\ sensors_table[i].temperature \in { ConvertTemperature(w) : w \in TWords }
              /\ sensors_table[i].humidity = 1000 * FloatScale
              /\ sensors_table[i].dew_point = Float(1000)

\* The steps are those of the write exchange alone.
OnlyWriteExchange(steps) ==
    /\ Ops(steps) = <<"IowKitWrite", "IowKitRead">>
    /\ ~Wrote(steps, 3)

\* The steps hold the write exchange and the 6 byte read exchange and no
\* check or conversion.
OnlyTwoExchanges(steps) ==
    /\ Ops(steps) = <<"IowKitWrite", "IowKitRead", "IowKitWrite", "IowKitRead">>
    /\ steps[3][3] = 3
    /\ B(steps[3][4], 0) = 6

\* GetMeasurements on every reply: the read follows a full ack only.
GetMeasurementsReadsAfterFullAck ==
    \A x \in MeasureExchanges :
        LET g == GetMeasurementsOn(x)
        IN  /\ x.in.w # 3 =>
                  g.ret = -1 /\ OnlyWriteExchange(g.steps) /\ OutputsUntouched(g)
            /\ x.in.w = 3 => Wrote(g.steps, 3)
            /\ (x.in.w = 3 /\ ErrorBit(x.in.r)) =>
                  g.ret = -1 /\ OnlyTwoExchanges(g.steps) /\ OutputsUntouched(g)

\* C8: the measurement issues the 6 byte read only when the write reply
\* reports 3 accepted bytes with the error bit clear; otherwise it ends
\* with -1 after the write exchange.  A read reply with the error bit set
\* ends it with -1 with no checksum verified and nothing converted or
\* stored; in UpdateSensorsMeasurements and in GetMeasurements.
C8_ReadOnlyAfterFullAck ==
    /\ (Measured /\ update.in.w # 3) =>
          /\ update.ret = -1
          /\ OnlyWriteExchange(update.steps)
          /\ update.changed = {}
    /\ (Measured /\ update.in.w = 3) => Wrote(update.steps, 3)
    /\ (Measured /\ update.in.w = 3 /\ ErrorBit(update.in.r)) =>
          /\ update.ret = -1
          /\ OnlyTwoExchanges(update.steps)
          /\ update.changed = {}
    /\ GetMeasurementsReadsAfterFullAck

C8_Witness ==
    /\ Measured /\ update.in.w = 131
    /\ update.ret = -1
    /\ Len(update.steps) = 2
    /\ pc = "close"

\* The bind pass of InitializeSticksAndSensors is over.
AfterBind == pc \in {"check", "update", "close"} \/ (pc = "exit" /\ devices # <<>>)

\* The handles of the sticks whose serial number the entry names.
Matching(entry) ==
    { h \in DOMAIN devices :
        GetUsbStickSerialNumber(devices[h]) = entry.stick_serial_number }

\* C9: after the bind pass an entry that names the serial number of some
\* stick is bound to that stick when its sensor identified as 7, marked
\* unknown when it identified as something else and marked sensor not found
\* (no stick attached) when nothing identified; an entry that names no
\* stick's serial number stays unbound.
C9_BindByIdentity ==
    AfterBind =>
        \A i \in DOMAIN sensors_table :
            LET entry == sensors_table[i]
            IN  IF Matching(entry) = {}
                THEN entry.usb_stick_handle = NULL /\ entry.info = INFO_STICK_NOT_FOUND
                ELSE \E h \in Matching(entry) :
                        IF sensor_ids[h] = 7
                        THEN entry.usb_stick_handle = h /\ entry.info = INFO_OK
                        ELSE IF sensor_ids[h] = -1
                             THEN entry.usb_stick_handle = NULL
                                  /\ entry.info = INFO_SENSOR_NOT_FOUND
                             ELSE entry.usb_stick_handle = NULL
                                  /\ entry.info = INFO_UNKNOWN_SENSOR

\* The registry of the example: sticks 6873 and 6181, entries (outer, 6873)
\* and (inner, 6367), a sensor with product code 7 on stick 6873.
ExampleRegistry ==
    /\ Len(devices) = 2
    /\ { GetUsbStickSerialNumber(devices[h]) : h \in DOMAIN devices } = {6873, 6181}
    /\ Len(sensors_table) = 2
    /\ sensors_table[1].stick_serial_number = 6873
    /\ sensors_table[2].stick_serial_number = 6367
    /\ \E h \in DOMAIN devices :
          GetUsbStickSerialNumber(devices[h]) = 6873 /\ sensor_ids[h] = 7

Status(entry) == <<entry.usb_stick_handle, entry.info>>

IsUnbound(entry) == Status(entry) = <<NULL, INFO_STICK_NOT_FOUND>>

IsBound(entry) == entry.usb_stick_handle # NULL /\ entry.info = INFO_OK

\* C11: the status of an entry (stick attached, message) changes only in a
\* pass of the bind loop and only away from unbound, so at most once, also
\* with sticks that report the same serial number or entries that name the
\* same one; after the bind pass the only change is the loss of the stick of
\* an entry that had one.
C11_StatusChangesOnce ==
    [][\A i \in DOMAIN sensors_table :
          Status(sensors_table'[i]) # Status(sensors_table[i]) =>
              \/ pc = "init" /\ IsUnbound(sensors_table[i])
              \/ /\ pc # "init"
                 /\ sensors_table[i].usb_stick_handle # NULL
                 /\ sensors_table'[i].usb_stick_handle = NULL]_vars

\* C12: an update call starts a measurement only on entries the bind pass
\* left bound; an entry it left unbound, with an unknown sensor or with no
\* sensor has no stick attached and no report is written or read for it.
C12_NoTransactionUnlessBound ==
    /\ update.called =>
          \A i \in update.visited : IsBound(sensors_table[i])
    /\ AfterBind =>
          \A i \in DOMAIN sensors_table :
              sensors_table[i].info # INFO_OK => sensors_table[i].usb_stick_handle = NULL

\* The positions in steps of the writes of an I2C command.
CommandWrites(steps, command) ==
    { i \in DOMAIN steps :
        /\ steps[i][1] = "IowKitWrite"
        /\ steps[i][3] = 2
        /\ B(steps[i][4], 2) = HighByte(command)
        /\ B(steps[i][4], 3) = LowByte(command) }

\* In the steps of one pass the soft reset exchange is complete before the
\* READ_ID command is written, and the matching comes last.
ResetThenIdentifyThenMatch(steps) ==
    /\ Cardinality(CommandWrites(steps, SOFT_RESET)) = 1
    /\ Cardinality(CommandWrites(steps, READ_ID)) = 1
    /\ \A r \in CommandWrites(steps, SOFT_RESET), d \in CommandWrites(steps, READ_ID) :
          /\ r + 1 < d
          /\ steps[r + 1][1] = "IowKitRead"
    /\ { i \in DOMAIN steps : steps[i][1] = "match" } = { Len(steps) }

\* C13 as stated: the k-th pass of the bind loop handles the k-th stick of
\* the enumeration, and each pass issues the soft reset before READ_ID and
\* finishes both before the matching.
C13_EnumerationOrder ==
    bind.called =>
        /\ bind.handle = Len(devices) - number_of_devices
        /\ ResetThenIdentifyThenMatch(bind.steps)

\* C13 amended: the passes of the bind loop handle the sticks from the last
\* one of the enumeration down to the first, and each pass issues the soft
\* reset before READ_ID and finishes both before the matching.
C13_ReverseEnumerationOrder ==
    bind.called =>
        /\ bind.handle = number_of_devices + 1
        /\ ResetThenIdentifyThenMatch(bind.steps)

C13_Witness ==
    /\ bind.called
    /\ Len(devices) = 2
    /\ bind.handle = 1
    /\ pc = "check"
    /\ Len(bind.steps) = 7

\* The positions in steps of the reports written with a ReportID.
ReportWrites(steps, report_id) ==
    { i \in DOMAIN steps : steps[i][1] = "IowKitWrite" /\ steps[i][3] = report_id }

\* The steps of one identification: one READ_ID write exchange, then at most
\* one 3 byte read exchange.
OneIdentification(steps) ==
    /\ Cardinality(CommandWrites(steps, READ_ID)) = 1
    /\ Cardinality(ReportWrites(steps, 3)) <= 1
    /\ \A i \in ReportWrites(steps, 3) : B(steps[i][4], 0) = 3
    /\ Count(steps, "IowKitRead") = Count(steps, "IowKitWrite")
    /\ Count(steps, "IowKitWrite") <= 2

\* GetSensorId on every pair of replies of the model.
GetSensorIdOnEveryReply ==
    \A x \in IdExchanges :
        LET id == GetSensorId(1, x.write_reply, x.read_reply)
        IN  /\ OneIdentification(id.steps)
            /\ x.in.w # 3 => id.ret = -1 /\ ReportWrites(id.steps, 3) = {}
            /\ (x.in.w = 3 /\ ~ErrorBit(x.in.r) /\ x.in.good) =>
                  /\ id.ret = x.in.word % 64
                  /\ id.ret \in 0..63
            /\ (x.in.w = 3 /\ ~ErrorBit(x.in.r) /\ ~x.in.good) => id.ret = -1

\* The first entry that names the serial number of the stick.
FirstMatch(table, handle) ==
    { i \in DOMAIN table :
        /\ table[i].stick_serial_number = GetUsbStickSerialNumber(devices[handle])
        /\ \A j \in 1..(i - 1) :
              table[j].stick_serial_number # GetUsbStickSerialNumber(devices[handle]) }

\* C14: an identification performs one READ_ID write exchange and at most
\* one 3 byte read exchange; it yields -1 when the write was not
\* acknowledged for 3 bytes, and on an acknowledged reply with a right
\* checksum the low 6 bits of the ID word, a value in 0..63; the stick is
\* attached to its entry exactly when that value is 7.
C14_IdentifyOnce ==
    /\ bind.called =>
          LET id == sensor_ids[bind.handle]
              id_steps == SubSeq(bind.steps, 5, Len(bind.steps) - 1)
          IN  /\ OneIdentification(id_steps)
              /\ bind.in.w # 3 => id = -1 /\ ReportWrites(id_steps, 3) = {}
              /\ (bind.in.w = 3 /\ ~ErrorBit(bind.in.r) /\ bind.in.good) =>
                    /\ id = bind.in.word % 64
                    /\ id \in 0..63
              /\ \A i \in FirstMatch(sensors_table, bind.handle) :
                    (sensors_table[i].usb_stick_handle = bind.handle) <=> (id = 7)
    /\ GetSensorIdOnEveryReply

C14_Witness ==
    /\ bind.called
    /\ bind.in.w = 3 /\ ~ErrorBit(bind.in.r) /\ bind.in.good
    /\ bind.in.word = 2117
    /\ sensor_ids[bind.handle] = 5
    /\ FirstMatch(sensors_table, bind.handle) # {}

\* Reply reports with every kind of first byte and payload bytes that are all
\* zero, all 3 or all 255.
AnyFirstBytes == { 0, 2, 3, 6, 127, 128, 131, 134, 255 }

AnyReports ==
    { Report(a, b, b, b, b, b, b) : a \in AnyFirstBytes, b \in {0, 3, 255} }

\* A table of one entry with stick 1 attached.
OneBoundTable ==
    << [NewSensor("outer", 6873) EXCEPT !.usb_stick_handle = 1, !.info = INFO_OK] >>

NothingChecked(steps) ==
    /\ ~Did(steps, "VerifyChecksum")
    /\ ~Did(steps, "ConvertTemperature")
    /\ ~Did(steps, "ConvertHumidity")
    /\ ~Did(steps, "logf")

\* WriteI2C decodes every reply by its first byte alone.
WriteAckDecoding ==
    \A reply \in AnyReports :
        WriteI2C(1, READ_ID, reply).ret =
            IF B(reply, 0) >= 128 THEN -1 ELSE B(reply, 0)

\* A read reply with the error bit set is not looked into, by any caller of
\* ReadI2c.
ReadAckDecoding ==
    \A reply \in AnyReports :
        B(reply, 0) >= 128 =>
            LET ack == Report(3, 0, 0, 0, 0, 0, 0)
                id == GetSensorId(1, ack, reply)
                u == MeasureSensor(OneBoundTable, 1, ack, reply)
                g == GetMeasurements(1, ack, reply,
                                     1000 * FloatScale, 1000 * FloatScale, Float(1000))
            IN  /\ id.ret = -1 /\ NothingChecked(id.steps)
                /\ u.ret = -1 /\ NothingChecked(u.steps) /\ u.table = OneBoundTable
                /\ g.ret = -1 /\ NothingChecked(g.steps) /\ OutputsUntouched(g)

\* C15: a reply whose first byte has bit 7 set is decoded as not
\* acknowledged whatever its other bytes hold: WriteI2C yields -1, and after
\* ReadI2c no byte of the reply is checked, converted or stored; with bit 7
\* clear WriteI2C yields the first byte, a value in 0..127.
C15_AckDecoding ==
    /\ WriteAckDecoding
    /\ ReadAckDecoding
    /\ (bind.called /\ bind.in.w = 3 /\ ErrorBit(bind.in.r)) =>
          /\ sensor_ids[bind.handle] = -1
          /\ NothingChecked(bind.steps)
    /\ (Measured /\ ErrorBit(update.in.w)) =>
          update.ret = -1 /\ NothingChecked(update.steps) /\ update.changed = {}
    /\ (Measured /\ update.in.w = 3 /\ ErrorBit(update.in.r)) =>
          update.ret = -1 /\ NothingChecked(update.steps) /\ update.changed = {}

C15_Witness ==
    /\ bind.called
    /\ bind.in.w = 3 /\ ErrorBit(bind.in.r)
    /\ bind.in.good /\ bind.in.word = 2119
    /\ sensor_ids[bind.handle] = -1

\* The library calls of a sequence of steps that move a report.
IsTransport(step) == step[1] \in {"IowKitWrite", "IowKitRead"}

IsModeReport(step) == step[1] = "IowKitWrite" /\ step[3] = 1

RECURSIVE Keep(_, _, _)
Keep(steps, mode_reports, i) ==
    IF i > Len(steps) THEN <<>>
    ELSE IF IsTransport(steps[i]) /\ (mode_reports \/ ~IsModeReport(steps[i]))
         THEN <<steps[i]>> \o Keep(steps, mode_reports, i + 1)
         ELSE Keep(steps, mode_reports, i + 1)

\* Writes and reads alternate, from a write to the read of the last reply.
Alternate(transport) ==
    /\ Len(transport) % 2 = 0
    /\ \A i \in DOMAIN transport :
          transport[i][1] = (IF i % 2 = 1 THEN "IowKitWrite" ELSE "IowKitRead")

OneAdapter(transport) ==
    \A i, j \in DOMAIN transport : transport[i][2] = transport[j][2]

\* The steps of the three parts of a run that talk to a stick: a pass of the
\* bind loop, an update call, the end of main.  Each part talks to one stick,
\* so the reports of a stick over the run are those of its parts in a row.
RunParts == { bind.steps, update.steps, closing }

\* C16 as stated: on every stick the report writes and reads of the run,
\* mode enable and mode disable included, alternate strictly from a write.
C16_WritesAndReadsAlternate ==
    \A part \in RunParts :
        /\ OneAdapter(Keep(part, TRUE, 1))
        /\ Alternate(Keep(part, TRUE, 1))

\* C16 amended: on every stick the reports of the I2C write and read
\* operations (soft reset, identification, measurement) are written and read
\* in strict alternation from a write, each operation making one write and
\* one read; mode enable and mode disable write one report and read none.
C16_I2cExchangesAlternate ==
    /\ \A part \in RunParts :
          /\ OneAdapter(Keep(part, TRUE, 1))
          /\ Alternate(Keep(part, FALSE, 1))
    /\ bind.called =>
          /\ IsModeReport(bind.steps[2])
          /\ Cardinality(ReportWrites(bind.steps, 1)) = 1
    /\ Cardinality(ReportWrites(update.steps, 1)) = 0
    /\ pc = "exit" => Keep(closing, TRUE, 1) \in { <<>>, DisableI2c(1) }

C16_Witness ==
    /\ pc = "exit"
    /\ Keep(closing, TRUE, 1) = DisableI2c(1)
    /\ Measured
    /\ Len(Keep(update.steps, FALSE, 1)) = 4
    /\ update.ret = 0

\* An update call ran in full: it went through the table and, when an entry
\* had a stick, ended a measurement with one of the results of the code and
\* every reply read.
RanInFull(u) ==
    /\ u.called
    /\ u.bound # {} =>
          /\ u.visited # {}
          /\ u.ret \in {0, -1, -2, -3}
          /\ Alternate(Keep(u.steps, TRUE, 1))

\* A step that changes the flag clears it and changes nothing else.
SignalOnlyClearsFlag ==
    infinite_loop_control' # infinite_loop_control =>
        /\ infinite_loop_control' = 0
        /\ UNCHANGED <<pc, devices, sensors_table, number_of_devices, sensor_ids,
                       presence, retry_counter, exit_code, update, ack_fail_run,
                       bind, closing, configuration>>

\* A step that ends a cycle has run its update in full, signalled or not.
CycleRunsInFull ==
    (pc = "cycle" /\ pc' # "cycle") =>
        /\ pc' \in {"loop", "exit"}
        /\ RanInFull(update')
        /\ update'.signalled = (infinite_loop_control = 0)

\* At the while condition with the flag cleared the loop is left, and after
\* the loop no update is made.
NoCycleAfterFlagSeen ==
    /\ (pc = "loop" /\ infinite_loop_control = 0 /\ pc' # pc) => pc' = "close"
    /\ pc \in {"close", "exit"} =>
          /\ update' = update
          /\ pc' \in {"close", "exit"}

C18_PollingNeverStops ==
    (Len(devices) > 0 /\ infinite_loop_control = 1) => pc \notin {"close", "exit"}

\* The CRC8 of the data sheet, by its definition: the remainder of the
\* division, over GF(2), of the message times x^8 by the polynomial 0x131,
\* the first byte of the message inverted (initial value 0xFF).
RECURSIVE Degree(_)
Degree(v) == IF v <= 1 THEN 0 ELSE 1 + Degree(v \div 2)

RECURSIVE PolynomialRemainder(_)
PolynomialRemainder(v) ==
    IF v < 256 THEN v
    ELSE PolynomialRemainder(BitXor(v, 305 * 2 ^ (Degree(v) - 8)))

ReferenceCrc8(data) ==
    PolynomialRemainder((BitXor(data[1], 255) * 256 + data[2]) * 256)

FlipBit(byte, k) == BitXor(byte, 2 ^ k)

\* The 2 byte spans the checksum is tried on; <<190, 239>> is the example
\* 0xBEEF of the data sheet, whose checksum is 0x92.
SpanBytes == { 0, 1, 8, 71, 102, 128, 190, 239, 255 }

Spans == { <<a, b>> : a \in SpanBytes, b \in SpanBytes }

ChecksumAcceptsOwnCrc ==
    /\ ReferenceCrc8(<<190, 239>>) = 146
    /\ \A data \in Spans : VerifyChecksum(data, 2, ReferenceCrc8(data)) = 0

ChecksumRejectsBitFlips ==
    \A data \in Spans, k \in 0..7 :
        LET crc == ReferenceCrc8(data)
        IN  /\ VerifyChecksum(<<FlipBit(data[1], k), data[2]>>, 2, crc) = -2
            /\ VerifyChecksum(<<data[1], FlipBit(data[2], k)>>, 2, crc) = -2
            /\ VerifyChecksum(data, 2, FlipBit(crc, k)) = -2

\* C19: VerifyChecksum accepts every 2 byte span with the CRC8 of that span
\* (initial value 0xFF, polynomial 0x131, most significant bit first) and
\* rejects it with -2 when one bit of the span or of the checksum is
\* flipped; so does every measurement whose reply carries such bytes.
C19_ChecksumRoundTrip ==
    /\ ChecksumAcceptsOwnCrc
    /\ ChecksumRejectsBitFlips
    /\ (Measured /\ update.in.w = 3 /\ ~ErrorBit(update.in.r)) =>
          /\ (update.in.t /\ update.in.h) <=> update.ret = 0
          /\ ~update.in.t <=> update.ret = -2
          /\ (update.in.t /\ ~update.in.h) <=> update.ret = -3

C19_Witness ==
    /\ Measured
    /\ update.in.w = 3 /\ ~ErrorBit(update.in.r)
    /\ update.in.t /\ ~update.in.h
    /\ update.ret = -3
    /\ Count(update.steps, "VerifyChecksum") = 2

\* A dew point that is a number: a float constant of the source or a value
\* of the dew point formula.
IsNumber(dew_point) == dew_point[1] \in {"float", "dew"}

\* C20: after a measurement that passed both checksums and converted a
\* humidity that is not above 0, the entry holds no dew point: neither a
\* value of the formula nor an earlier value nor a placeholder number.
C20_NoDewPointWithoutHumidity ==
    (Measured /\ update.ret = 0) =>
        \A i \in update.visited :
            sensors_table[i].humidity <= 0 => ~IsNumber(sensors_table[i].dew_point)

\* The replies a stick has sent that the steps of a call left unread: the
\* stick answers every I2C report written to it (ReportID 2 or 3), `replies`
\* in this order, and every IowKitRead takes the oldest unread reply.
UnreadReplies(steps, replies) ==
    LET written == Cardinality(ReportWrites(steps, 2) \cup ReportWrites(steps, 3))
        read == Count(steps, "IowKitRead")
    IN  IF read >= written THEN <<>> ELSE SubSeq(replies, read + 1, written)

\* The two replies of the stick in an identification, by what the
\* environment chose.
IdRepliesOf ==
    [in \in { x.in : x \in AllowedIdExchanges } |->
        << Report(in.w, 0, 0, 0, 0, 0, 0), IdReply(in.r, in.word, in.good) >>]

\* An identification of the stick of the last bind pass that is given what
\* the stick has left unread and then the replies of the pass once more.
IdentifyAgain(unread) ==
    LET replies == unread \o IdRepliesOf[bind.in]
    IN  GetSensorId(bind.handle, replies[1], replies[2])

RECURSIVE UpToStop(_)
UpToStop(lines) ==
    IF lines = <<>> \/ Head(lines) = BINDING_LIST_STOP THEN <<>>
    ELSE <<Head(lines)>> \o UpToStop(Tail(lines))

WellFormedLines(file) ==
    LET section == UpToStop(SensorsSection(file.lines))
    IN  { i \in DOMAIN section : ReadBindingLine(section[i], -1).kind = "sensor" }

NameOfLine(file, i) ==
    ReadBindingLine(UpToStop(SensorsSection(file.lines))[i], -1).sensor.name

\* C22: after LoadConfiguration every entry of the table has a name that is
\* not empty, no two entries have the same name, and for a file with two
\* well formed lines of the same name an error is printed for the later one.
C22_DistinctNames ==
    (pc = "loaded" /\ configuration.called) =>
        /\ \A i \in DOMAIN sensors_table : sensors_table[i].name # <<>>
        /\ \A i, j \in DOMAIN sensors_table :
              i # j => sensors_table[i].name # sensors_table[j].name
        /\ \A i, j \in WellFormedLines(configuration.file) :
              (i < j /\ NameOfLine(configuration.file, i) = NameOfLine(configuration.file, j))
                  => \E e \in DOMAIN configuration.errors : configuration.errors[e][1] = j

\* The table LoadConfiguration leaves for the file
\*   sensors: / in<tab>6873 / in<tab>6181 / end.
\* when sensors_iterator starts at 0.
C22_TwoEntriesOfOneName ==
    /\ pc = "loaded"
    /\ configuration.uninitialised = 0
    /\ configuration.errors = <<>>
    /\ Len(sensors_table) = 2
    /\ sensors_table[1].name = <<"i", "n">>
    /\ sensors_table[2].name = <<"i", "n">>
    /\ sensors_table[1].stick_serial_number = 6873
    /\ sensors_table[2].stick_serial_number = 6181

\* A step of main that calls UpdateSensorsMeasurements.
UpdateStep == pc \in {"update", "cycle"} /\ pc' # pc /\ update'.called

\* What entry i holds differs between the two tables.
EntryDiffers(before, after, i) == after[i] # before[i]

StoresOnlyAfterAllChecks ==
    UpdateStep =>
        /\ Len(sensors_table') = Len(sensors_table)
        /\ \A i \in DOMAIN sensors_table :
              /\ sensors_table'[i].name = sensors_table[i].name
              /\ sensors_table'[i].stick_serial_number = sensors_table[i].stick_serial_number
              /\ sensors_table'[i].usb_stick_handle = sensors_table[i].usb_stick_handle
              /\ EntryDiffers(sensors_table, sensors_table', i) =>
                    /\ update'.ret = 0
                    /\ update'.visited = {i}
                    /\ update'.in.w = 3 /\ ~ErrorBit(update'.in.r)
                    /\ update'.in.t /\ update'.in.h
        /\ update'.ret \in {-1, -2, -3} => sensors_table' = sensors_table
        /\ (update'.ret = 0 /\ update'.visited # {}) =>
              \A i \in update'.visited :
                 LET T == sensors_table'[i].temperature
                     RH == sensors_table'[i].humidity
                 IN  /\ Did(update'.steps, "ConvertTemperature")
                     /\ Did(update'.steps, "ConvertHumidity")
                     /\ T \in { ConvertTemperature(word) : word \in TWords }
                     /\ RH \in { ConvertHumidity(word) : word \in HWords }
                     /\ T # 1000 * FloatScale /\ RH # 1000 * FloatScale
                     /\ sensors_table'[i].dew_point =
                           IF RH > 0
                           THEN DewPointFormula(IF T > 0 THEN T_PLUS ELSE T_MINUS,
                                                IF T > 0 THEN M_PLUS ELSE M_MINUS, T, RH)
                           ELSE Float(1000)

\* C23: a call of UpdateSensorsMeasurements changes an entry only when the
\* write was acknowledged, the read carried no error bit and both checksums
\* were right, and then it stores temperature, humidity and dew point of
\* that one sample; a call that ends -1, -2 or -3 leaves the whole table as
\* it was, and no call changes a name, a serial number or a handle.
C23_StoresOnlyAfterAllChecks == [][StoresOnlyAfterAllChecks]_vars

C23_Witness ==
    /\ Measured
    /\ update.ret = 0
    /\ update.changed = update.visited
    /\ \E i \in update.visited :
          /\ sensors_table[i].humidity > 0
          /\ sensors_table[i].temperature # 1000 * FloatScale
          /\ sensors_table[i].dew_point[1] = "dew"
    /\ \E j \in update.bound : j \notin update.visited

\* No two sticks have the same serial number.
DistinctSerials ==
    \A g, h \in DOMAIN devices :
        g # h => GetUsbStickSerialNumber(devices[g]) # GetUsbStickSerialNumber(devices[h])

\* C24: after the bind pass over sticks of pairwise distinct serial numbers,
\* an entry that holds a handle names the serial number of that stick, the
\* stick identified as 7, and no other entry holds the same handle; of the
\* entries that name one serial number only the first can hold a handle.
C24_BoundEntriesMatchTheirStick ==
    (AfterBind /\ DistinctSerials) =>
        /\ \A i \in BoundEntries(sensors_table) :
              LET h == sensors_table[i].usb_stick_handle
              IN  /\ h \in DOMAIN devices
                  /\ sensors_table[i].stick_serial_number = GetUsbStickSerialNumber(devices[h])
                  /\ sensor_ids[h] = 7
                  /\ sensors_table[i].info = INFO_OK
        /\ \A i, j \in BoundEntries(sensors_table) :
              sensors_table[i].usb_stick_handle = sensors_table[j].usb_stick_handle => i = j
        /\ \A i, j \in DOMAIN sensors_table :
              (i < j /\ sensors_table[i].stick_serial_number = sensors_table[j].stick_serial_number)
                  => /\ sensors_table[j].usb_stick_handle = NULL
                     /\ sensors_table[j].info = INFO_STICK_NOT_FOUND

C24_Witness ==
    /\ pc = "check"
    /\ Len(devices) = 2 /\ DistinctSerials
    /\ Len(sensors_table) = 2
    /\ sensors_table[1].stick_serial_number = sensors_table[2].stick_serial_number
    /\ sensors_table[1].usb_stick_handle = 2
    /\ sensors_table[2].usb_stick_handle = NULL
    /\ sensor_ids[1] = 7 /\ sensor_ids[2] = 7

============================================================================
